---- MODULE Spec2Model ----
(***************************************************************************)
(* Model of the book-tracking backend (convex/books.ts, convex/schema.ts): *)
(* the books and recommendations tables, the public mutations, queries and *)
(* actions, and the functions run by the scheduler.                        *)
(*                                                                         *)
(* A mutation is one transaction, hence one step.  An action is not: it    *)
(* takes one step per database call it awaits, and other calls interleave. *)
(* Text is a sequence of one-character strings, so that trim() and length  *)
(* are computed.  An optional value is a set with at most one element.     *)
(***************************************************************************)
EXTENDS Integers, Sequences, FiniteSets

\* ------------------------------------------------------------------ bounds
MaxBooks == 1         \* addBook calls that insert
MaxManualRuns == 1    \* generateRecommendations calls made by a client
MaxSaves == 1         \* saveRecommendation calls made by a client
MaxTableSaves == 5    \* the same, where only the recommendations table is studied
MaxSugg == 2          \* longest suggestions list the model returns
MaxLongSugg == 4      \* the same, where only addBook and its runs are studied
MaxClock == 1         \* largest value of Date.now()
MaxText == 2          \* longest text the model returns for a genre
MaxQuery == 3         \* longest query typed into the search
MaxTimers == 3        \* debounce timers the add-book form starts

\* ------------------------------------------------------------------ inputs
Users == {"u1", "u2"}
NoUser == "null"                       \* getAuthUserId(ctx) === null
Callers == Users \cup {NoUser}
Titles == {"Dune", "Emma"}
Authors == {"Herbert"}
Ratings == {4, 6}                      \* v.number(): any number is accepted
Whitespace == {" "}
Chars == Whitespace \cup {"S"}

RECURSIVE TextsOfLen(_)
TextsOfLen(n) ==
    IF n = 0 THEN {<< >>}
    ELSE {<<c>> \o t : c \in Chars, t \in TextsOfLen(n - 1)}

Texts == UNION {TextsOfLen(n) : n \in 0..MaxText}
Queries == UNION {TextsOfLen(n) : n \in 0..MaxQuery}

Undefined == {}
Some(x) == {x}
Opt(S) == {Undefined} \cup {Some(x) : x \in S}
The(o) == CHOOSE x \in o : TRUE

\* ids a client may name: an id names no book before it is inserted and after
\* the book is removed
BookIds == 1..MaxBooks

\* args.genre of addBook: absent, "" or a label
GenreArgs == {Undefined, Some(<< >>), Some(<<"S">>)}

Fiction == <<"F", "i", "c", "t", "i", "o", "n">>

\* ------------------------------------------------------------------- state
VARIABLES
    books,        \* table books: records id, userId, title, author, rating, genre
    recs,         \* table recommendations: id, userId, bookTitle, reason,
                  \* timestamp (and run: the execution that inserted it, 0 if none)
    jobs,         \* scheduled detectGenre functions and their outcome
    runs,         \* generateRecommendations executions: position (pc), locals
                  \* (todo: the suggestions the loop has yet to visit,
                  \* timestamp) and what they did (lib: ids of the books
                  \* read, answer: what the completion request gave, "none"
                  \* before it is made, n: how many suggestions the loop
                  \* started on, err: what the action threw)
    nextBookId, nextRecId, nextJobId, nextRunId,
    manualRuns, saves,
    now,          \* Date.now()
    reply,        \* outcome of the client call made by the last step (owners:
                  \* the owners of the records a query returned, content:
                  \* what the completion request of searchBooks gave, if any)
    observed,     \* whether the specification records call outcomes in reply
    form          \* the add-book form of the client (App.tsx, Content):
                  \* title (newBook.title), suggestions, searchTimeout (0 for
                  \* null), timers (pending window.setTimeout callbacks, each
                  \* with the title its closure holds), calls (searchBooks
                  \* calls awaiting their response), nextTimer, submitting
                  \* (handleSubmit awaits addBook)

vars == <<books, recs, jobs, runs, nextBookId, nextRecId, nextJobId, nextRunId,
          manualRuns, saves, now, reply, observed, form>>

\* what the functions of the backend and the clock never touch and what the
\* form never touches
server == <<books, recs, jobs, runs, nextBookId, nextRecId, nextJobId,
            nextRunId, manualRuns, saves, now, reply, observed>>

NoCall == [op |-> "none", caller |-> NoUser, err |-> "none", book |-> 0,
           query |-> << >>, called |-> FALSE, result |-> << >>, owners |-> {},
           content |-> {}]

Reply(op, caller, err, book) ==
    [op |-> op, caller |-> caller, err |-> err, book |-> book,
     query |-> << >>, called |-> FALSE, result |-> << >>, owners |-> {},
     content |-> {}]

\* a failed call changes no table: where outcomes are not recorded it is no step
Respond(r) ==
    /\ reply' = IF observed THEN r ELSE NoCall
    /\ UNCHANGED <<observed, form>>

\* -------------------------------------------------------------- JS helpers
\* String.prototype.trim
RECURSIVE TrimLeft(_)
TrimLeft(s) ==
    IF s # << >> /\ Head(s) \in Whitespace THEN TrimLeft(Tail(s)) ELSE s

RECURSIVE TrimRight(_)
TrimRight(s) ==
    IF s # << >> /\ s[Len(s)] \in Whitespace
    THEN TrimRight(SubSeq(s, 1, Len(s) - 1))
    ELSE s

Trim(s) == TrimRight(TrimLeft(s))

\* truthiness of an optional string: undefined, null and "" are falsy
Truthy(o) == o # Undefined /\ The(o) # << >>

\* mutant: the identity check is missing
AuthenticatedAlways(caller) == TRUE

\* if (!userId) throw new Error("Not authenticated")
Authenticated(caller) == caller # NoUser

\* the Id<"_scheduled_functions"> scheduler.runAfter returns: an opaque,
\* non-empty string, one per scheduled function
SchedId(n) == <<"j">> \o [i \in 1..n |-> "#"]

\* ------------------------------------------------------------------ addBook
\* const genre = args.genre || (await ctx.scheduler.runAfter(0, detectGenre, ..))
ResolveGenre(genreArg, scheduledId) ==
    IF Truthy(genreArg) THEN The(genreArg) ELSE scheduledId

\* a scheduled detectGenre call; book is the book whose addBook scheduled it.
\* Its arguments title and author only reach the prompt, and the answer of
\* the model is arbitrary, so they are not kept.
NewJob ==
    [id |-> nextJobId, book |-> nextBookId,
     state |-> "pending", content |-> Undefined, result |-> << >>]

\* a generateRecommendations call; book is the book whose addBook scheduled
\* it, 0 when a client made the call
\* mutant: the run is scheduled for the first user, whoever calls
NewRunForFirstUser(userId, book) ==
    [id |-> nextRunId, userId |-> "u1", book |-> book, pc |-> "scheduled",
     lib |-> {}, answer |-> "none", err |-> "none",
     todo |-> << >>, timestamp |-> 0, n |-> 0]

NewRun(userId, book) ==
    [id |-> nextRunId, userId |-> userId, book |-> book, pc |-> "scheduled",
     lib |-> {}, answer |-> "none", err |-> "none",
     todo |-> << >>, timestamp |-> 0, n |-> 0]

addBook(caller, title, author, rating, genreArg) ==
    IF ~Authenticated(caller)
    THEN /\ Respond(Reply("addBook", caller, "Unauthenticated", 0))
         /\ UNCHANGED <<books, recs, jobs, runs, nextBookId, nextRecId,
                        nextJobId, nextRunId, manualRuns, saves, now>>
    ELSE /\ nextBookId <= MaxBooks
         /\ jobs' = IF Truthy(genreArg) THEN jobs ELSE jobs \cup {NewJob}
         /\ nextJobId' = IF Truthy(genreArg) THEN nextJobId ELSE nextJobId + 1
         /\ books' = books \cup
                {[id |-> nextBookId, userId |-> caller, title |-> title,
                  author |-> author, rating |-> rating,
                  genre |-> ResolveGenre(genreArg, SchedId(nextJobId))]}
         /\ nextBookId' = nextBookId + 1
         /\ runs' = runs \cup {NewRun(caller, nextBookId)}
         /\ nextRunId' = nextRunId + 1
         /\ Respond(Reply("addBook", caller, "none", nextBookId))
         /\ UNCHANGED <<recs, nextRecId, manualRuns, saves, now>>

\* -------------------------------------------------------------- detectGenre
\* mutant: the || "Fiction" fallback is missing
DetectGenreNoFallback(content) ==
    IF content = Undefined THEN << >> ELSE Trim(The(content))

\* completion.choices[0].message.content?.trim() || "Fiction"
DetectGenreResult(content) ==
    LET trimmed == IF content = Undefined THEN Undefined
                   ELSE Some(Trim(The(content)))
    IN  IF Truthy(trimmed) THEN The(trimmed) ELSE Fiction

\* openai.chat.completions.create(..) throws, or returns a message whose
\* content is one of `contents`
Throws == {}
Completions(contents) == {Throws} \cup {{c} : c \in contents}

\* the scheduled detectGenre action runs
detectGenre(j, completion) ==
    /\ j \in jobs
    /\ j.state = "pending"
    /\ jobs' = (jobs \ {j}) \cup
          {IF completion = Throws
           THEN [j EXCEPT !.state = "failed"]
           ELSE [j EXCEPT !.state = "success", !.content = The(completion),
                          !.result = DetectGenreResult(The(completion))]}
    /\ Respond(NoCall)
    /\ UNCHANGED <<books, recs, runs, nextBookId, nextRecId, nextJobId,
                   nextRunId, manualRuns, saves, now>>

\* --------------------------------------------------- removeBook, updateBook
Book(bookId) == {b \in books : b.id = bookId}        \* ctx.db.get(args.bookId)

\* mutant: only the existence of the book is checked
OwnedByAnyone(book, userId) == book # {}

\* if (!book || book.userId !== userId) throw ...
OwnedBy(book, userId) == book # {} /\ \A b \in book : b.userId = userId

\* the checks removeBook and updateBook make, in their order
AccessError(caller, bookId) ==
    IF ~Authenticated(caller) THEN "Unauthenticated"
    ELSE IF ~OwnedBy(Book(bookId), caller) THEN "NotFoundOrForbidden"
    ELSE "none"

removeBook(caller, bookId) ==
    /\ Respond(Reply("removeBook", caller, AccessError(caller, bookId), bookId))
    /\ books' = IF AccessError(caller, bookId) = "none"
                THEN books \ Book(bookId)
                ELSE books
    /\ UNCHANGED <<recs, jobs, runs, nextBookId, nextRecId, nextJobId,
                   nextRunId, manualRuns, saves, now>>

\* ctx.db.patch(args.bookId, {title, author, rating})
Patch(b, title, author, rating) ==
    [b EXCEPT !.title = title, !.author = author, !.rating = rating]

updateBook(caller, bookId, title, author, rating) ==
    /\ Respond(Reply("updateBook", caller, AccessError(caller, bookId), bookId))
    /\ books' = IF AccessError(caller, bookId) = "none"
                THEN (books \ Book(bookId)) \cup
                     {Patch(b, title, author, rating) : b \in Book(bookId)}
                ELSE books
    /\ UNCHANGED <<recs, jobs, runs, nextBookId, nextRecId, nextJobId,
                   nextRunId, manualRuns, saves, now>>

\* ------------------------------------------------------------------ queries
\* mutant: the index range excludes the user instead of selecting them
getUserBooksOfOthers(userId) == {b \in books : b.userId # userId}

\* books by_user index, collect()
getUserBooks(userId) == {b \in books : b.userId = userId}

listBooks(caller) == IF ~Authenticated(caller) THEN {} ELSE getUserBooks(caller)

\* mutant: the index is read in ascending order
Before(a, b) ==
    \/ a.timestamp < b.timestamp
    \/ a.timestamp = b.timestamp /\ a.id < b.id

\* by_user_recent is ordered by (userId, timestamp) and then by creation
After(a, b) ==
    \/ a.timestamp > b.timestamp
    \/ a.timestamp = b.timestamp /\ a.id > b.id

\* .order("desc").take(n) over a set of index entries
RECURSIVE TakeDesc(_, _)
TakeDesc(S, n) ==
    IF n = 0 \/ S = {} THEN << >>
    ELSE LET top == CHOOSE x \in S : \A y \in S \ {x} : After(x, y)
         IN  <<top>> \o TakeDesc(S \ {top}, n - 1)

\* withIndex("by_user_recent", q => q.eq("userId", userId))
RecsOf(userId) == {r \in recs : r.userId = userId}

TakeLimit == 3

getRecommendations(caller) ==
    IF ~Authenticated(caller) THEN << >>
    ELSE TakeDesc(RecsOf(caller), TakeLimit)

\* the three queries as calls of a client: the answer records whose records
\* were returned
Answered(op, caller, returned) ==
    /\ Respond([Reply(op, caller, "none", 0)
                  EXCEPT !.owners = {x.userId : x \in returned}])
    /\ UNCHANGED <<books, recs, jobs, runs, nextBookId, nextRecId, nextJobId,
                   nextRunId, manualRuns, saves, now>>

listBooksCall(caller) == Answered("listBooks", caller, listBooks(caller))

getRecommendationsCall(caller) ==
    LET out == getRecommendations(caller)
    IN  Answered("getRecommendations", caller, {out[i] : i \in DOMAIN out})

\* the query is public: a client can call it for any userId
getUserBooksCall(caller, userId) ==
    Answered("getUserBooks", caller, getUserBooks(userId))

\* ------------------------------------------------------- saveRecommendation
SuggTitles == {"Hyperion"}
Reasons == {"similar"}

\* args validator: bookTitle and reason are required strings
ValidSaveArgs(args) ==
    /\ args.bookTitle # Undefined
    /\ args.reason # Undefined

\* mutant: the document is written twice
InsertTwice(table, doc) ==
    table \cup {doc, [doc EXCEPT !.id = doc.id + 1]}

\* mutant: the new record replaces the earlier records of its owner
InsertReplacing(table, doc) ==
    {x \in table : x.userId # doc.userId} \cup {doc}

\* ctx.db.insert adds one document and touches no other
Insert(table, doc) == table \cup {doc}

\* mutant: the timestamp is taken when the record is inserted
InsertedRecStampedNow(args, run) ==
    [id |-> nextRecId, userId |-> args.userId, bookTitle |-> The(args.bookTitle),
     reason |-> The(args.reason), timestamp |-> now, run |-> run]

\* the document of ctx.db.insert("recommendations", args)
InsertedRec(args, run) ==
    [id |-> nextRecId, userId |-> args.userId, bookTitle |-> The(args.bookTitle),
     reason |-> The(args.reason), timestamp |-> args.timestamp, run |-> run]

\* the mutation is public: any client can call it with any arguments; at most
\* `limit` such calls are made
saveRecommendation(caller, userId, bookTitle, reason, timestamp, limit) ==
    LET args == [userId |-> userId, bookTitle |-> bookTitle, reason |-> reason,
                 timestamp |-> timestamp]
    IN  /\ saves < limit
        /\ saves' = saves + 1
        /\ IF ValidSaveArgs(args)
           THEN /\ recs' = Insert(recs, InsertedRec(args, 0))
                /\ nextRecId' = nextRecId + 1
                /\ Respond(Reply("saveRecommendation", caller, "none", 0))
           ELSE /\ UNCHANGED <<recs, nextRecId>>
                /\ Respond(Reply("saveRecommendation", caller,
                                 "ArgumentValidationError", 0))
        /\ UNCHANGED <<books, jobs, runs, nextBookId, nextJobId, nextRunId,
                       manualRuns, now>>

\* -------------------------------------------------- generateRecommendations
\* one element of the suggestions array the model returns: title and reason;
\* the title may be missing
Suggestions == [title : Opt(SuggTitles), reason : {Some(r) : r \in Reasons}]

RECURSIVE SeqsOfLen(_, _)
SeqsOfLen(S, n) ==
    IF n = 0 THEN {<< >>}
    ELSE {<<x>> \o t : x \in S, t \in SeqsOfLen(S, n - 1)}

SeqsUpTo(S, n) == UNION {SeqsOfLen(S, k) : k \in 0..n}

\* message.content of a completion: not JSON, null, or a JSON object whose
\* suggestions member is absent or a list
RecContents ==
    {[kind |-> "invalid", suggestions |-> Undefined],
     [kind |-> "null", suggestions |-> Undefined]}
    \cup {[kind |-> "object", suggestions |-> s] :
            s \in Opt(SeqsUpTo(Suggestions, MaxSugg))}

\* JSON.parse(content): throws on text that is not JSON; null parses to null
ParseThrows(content) == content.kind = "invalid"

\* recommendations.suggestions can be iterated: the parsed value is an object
\* (reading a member of null throws) and the member is a list
Iterable(content) == content.kind = "object" /\ content.suggestions # Undefined

\* the action returns or throws: its locals are gone, what it did stays
Ended(r, err) ==
    [r EXCEPT !.pc = IF err = "none" THEN "done" ELSE "failed", !.err = err,
              !.todo = << >>, !.timestamp = 0]

\* the action is public: a client can call it for any userId
generateRecommendationsCall(caller, userId) ==
    /\ manualRuns < MaxManualRuns
    /\ manualRuns' = manualRuns + 1
    /\ runs' = runs \cup {NewRun(userId, 0)}
    /\ nextRunId' = nextRunId + 1
    /\ Respond(Reply("generateRecommendations", caller, "none", 0))
    /\ UNCHANGED <<books, recs, jobs, nextBookId, nextRecId, nextJobId,
                   saves, now>>

\* mutant: the early return is missing
EmptyLibraryIgnored(library) == FALSE

\* if (books.length === 0) return
EmptyLibrary(library) == library = {}

\* const books = await ctx.runQuery(getUserBooks, ..)
generateRecommendationsRead(r) ==
    /\ r \in runs
    /\ r.pc = "scheduled"
    /\ LET library == getUserBooks(r.userId)
       IN  runs' = (runs \ {r}) \cup
             {IF EmptyLibrary(library) THEN Ended(r, "none")
              ELSE [r EXCEPT !.lib = {b.id : b \in library}, !.pc = "prompt"]}
    /\ Respond(NoCall)
    /\ UNCHANGED <<books, recs, jobs, nextBookId, nextRecId, nextJobId,
                   nextRunId, manualRuns, saves, now>>

\* mutant: a failed parse is caught and a stock suggestion is saved instead
AfterCompletionLenient(r, completion) ==
    IF completion = Throws
    THEN Ended([r EXCEPT !.answer = "throws"], "UpstreamGenerationFailure")
    ELSE LET content == The(completion)
             asked == [r EXCEPT !.answer = content.kind]
             stock == <<[title |-> Some("Hyperion"), reason |-> Some("similar")]>>
         IN  IF ParseThrows(content)
             THEN [asked EXCEPT !.timestamp = now, !.todo = stock, !.pc = "save"]
             ELSE IF ~Iterable(content) THEN Ended(asked, "TypeError")
             ELSE IF The(content.suggestions) = << >> THEN Ended(asked, "none")
             ELSE [asked EXCEPT !.timestamp = now,
                                !.todo = The(content.suggestions),
                                !.pc = "save"]

\* mutant: a null content is read as an empty list of suggestions
AfterCompletionNullAsEmpty(r, completion) ==
    IF completion = Throws
    THEN Ended([r EXCEPT !.answer = "throws"], "UpstreamGenerationFailure")
    ELSE LET content == The(completion)
             asked == [r EXCEPT !.answer = content.kind]
         IN  IF ParseThrows(content) THEN Ended(asked, "SyntaxError")
             ELSE IF content.kind = "null" THEN Ended(asked, "none")
             ELSE IF ~Iterable(content) THEN Ended(asked, "TypeError")
             ELSE IF The(content.suggestions) = << >> THEN Ended(asked, "none")
             ELSE [asked EXCEPT !.timestamp = now,
                                !.todo = The(content.suggestions),
                                !.n = Len(The(content.suggestions)),
                                !.pc = "save"]

\* the run after the completion request, JSON.parse, Date.now() and the
\* start of the loop
AfterCompletion(r, completion) ==
    IF completion = Throws
    THEN Ended([r EXCEPT !.answer = "throws"], "UpstreamGenerationFailure")
    ELSE LET content == The(completion)
             asked == [r EXCEPT !.answer = content.kind]
         IN  IF ParseThrows(content) THEN Ended(asked, "SyntaxError")
             ELSE IF ~Iterable(content) THEN Ended(asked, "TypeError")
             ELSE IF The(content.suggestions) = << >> THEN Ended(asked, "none")
             ELSE [asked EXCEPT !.timestamp = now,
                                !.todo = The(content.suggestions),
                                !.n = Len(The(content.suggestions)),
                                !.pc = "save"]

generateRecommendationsComplete(r, completion) ==
    /\ r \in runs
    /\ r.pc = "prompt"
    /\ runs' = (runs \ {r}) \cup {AfterCompletion(r, completion)}
    /\ Respond(NoCall)
    /\ UNCHANGED <<books, recs, jobs, nextBookId, nextRecId, nextJobId,
                   nextRunId, manualRuns, saves, now>>

\* one iteration: await ctx.runMutation(saveRecommendation, {..})
generateRecommendationsSave(r) ==
    /\ r \in runs
    /\ r.pc = "save"
    /\ LET rec == Head(r.todo)
           args == [userId |-> r.userId, bookTitle |-> rec.title,
                    reason |-> rec.reason, timestamp |-> r.timestamp]
       IN  IF ValidSaveArgs(args)
           THEN /\ recs' = Insert(recs, InsertedRec(args, r.id))
                /\ nextRecId' = nextRecId + 1
                /\ runs' = (runs \ {r}) \cup
                      {IF Tail(r.todo) = << >> THEN Ended(r, "none")
                       ELSE [r EXCEPT !.todo = Tail(r.todo)]}
           ELSE /\ UNCHANGED <<recs, nextRecId>>
                /\ runs' = (runs \ {r}) \cup
                      {Ended(r, "ArgumentValidationError")}
    /\ Respond(NoCall)
    /\ UNCHANGED <<books, jobs, nextBookId, nextJobId, nextRunId, manualRuns,
                   saves, now>>

\* -------------------------------------------------------------- searchBooks
\* message.content of the search completion
SearchSuggestion == [title |-> "Dune", author |-> "Herbert"]

SearchContents ==
    {[kind |-> "invalid", suggestions |-> Undefined],
     [kind |-> "null", suggestions |-> Undefined],
     [kind |-> "object", suggestions |-> Undefined],
     [kind |-> "object", suggestions |-> Some(<< >>)],
     [kind |-> "object", suggestions |-> Some(<<SearchSuggestion>>)]}

MinQueryLength == 2

\* mutant: only the empty query is short-circuited
TooShortOnlyEmpty(query) == Len(query) < 1

\* if (args.query.length < 2) return []
TooShort(query) == Len(query) < MinQueryLength

\* mutant: the parsed value is returned where it has no suggestions member
SearchResultNoDefault(content) ==
    IF content.kind # "object" THEN << >>
    ELSE IF content.suggestions = Undefined THEN <<content>>
    ELSE The(content.suggestions)

\* try { result = JSON.parse(content); return result.suggestions || [] }
\* catch { return [] }
SearchResult(content) ==
    IF ParseThrows(content) \/ content.kind = "null" THEN << >>
    ELSE IF content.suggestions = Undefined THEN << >>
    ELSE The(content.suggestions)

searchBooks(caller, query, completion) ==
    /\ Respond(
         IF TooShort(query)
         THEN [Reply("searchBooks", caller, "none", 0) EXCEPT !.query = query]
         ELSE IF completion = Throws
         THEN [Reply("searchBooks", caller, "UpstreamGenerationFailure", 0)
                 EXCEPT !.query = query, !.called = TRUE]
         ELSE [Reply("searchBooks", caller, "none", 0)
                 EXCEPT !.query = query, !.called = TRUE,
                        !.content = completion,
                        !.result = SearchResult(The(completion))])
    /\ UNCHANGED <<books, recs, jobs, runs, nextBookId, nextRecId, nextJobId,
                   nextRunId, manualRuns, saves, now>>

\* ------------------------------------------------- add-book form (App.tsx)
MinTitleLength == 2

\* the text of a suggested title
TextOf(title) == IF title = "Dune" THEN <<"D", "u", "n", "e">> ELSE << >>

\* the useEffect on [newBook.title]: for a title of 2 characters or more it
\* clears the timer named by searchTimeout and starts one whose callback holds
\* this title; for a shorter title it only empties the suggestions
TitleEffect(f, t) ==
    IF Len(t) >= MinTitleLength
    THEN [f EXCEPT !.timers = {x \in f.timers : x.id # f.searchTimeout}
                                 \cup {[id |-> f.nextTimer, query |-> t]},
                   !.searchTimeout = f.nextTimer,
                   !.nextTimer = f.nextTimer + 1]
    ELSE [f EXCEPT !.suggestions = << >>]

\* setNewBook with a title: the effect runs only when the title changed
SetTitle(f, t) ==
    IF t = f.title THEN f ELSE TitleEffect([f EXCEPT !.title = t], t)

\* at most MaxTimers timers are started
MayStart(t) == Len(t) >= MinTitleLength => form.nextTimer <= MaxTimers

\* onChange of the title input
EditTitle(t) ==
    /\ t # form.title
    /\ MayStart(t)
    /\ form' = SetTitle(form, t)
    /\ UNCHANGED server

\* 300 ms passed: the callback calls searchBooks with the title it holds
TimerFires(tm) ==
    /\ tm \in form.timers
    /\ form' = [form EXCEPT !.timers = form.timers \ {tm},
                            !.calls = form.calls \cup {tm}]
    /\ UNCHANGED server

\* the searchBooks call returns: setSuggestions(results || []); a rejected
\* call sets nothing
SearchReturns(call, completion) ==
    /\ call \in form.calls
    /\ form' = [form EXCEPT
                  !.calls = form.calls \ {call},
                  !.suggestions =
                     IF TooShort(call.query) THEN << >>
                     ELSE IF completion = Throws THEN form.suggestions
                     ELSE SearchResult(The(completion))]
    /\ UNCHANGED server

\* handleSubmit up to `await addBook(newBook)`; the title input is required
handleSubmitCall ==
    /\ ~form.submitting
    /\ form.title # << >>
    /\ form' = [form EXCEPT !.submitting = TRUE]
    /\ UNCHANGED server

\* handleSubmit after addBook: on success the form is reset and the
\* suggestions are emptied, on failure nothing is set
handleSubmitReturn(ok) ==
    /\ form.submitting
    /\ form' = IF ok
               THEN [SetTitle(form, << >>) EXCEPT !.suggestions = << >>,
                                                  !.submitting = FALSE]
               ELSE [form EXCEPT !.submitting = FALSE]
    /\ UNCHANGED server

handleSuggestionClick(i) ==
    /\ i \in DOMAIN form.suggestions
    /\ MayStart(TextOf(form.suggestions[i].title))
    /\ form' = [SetTitle(form, TextOf(form.suggestions[i].title))
                  EXCEPT !.suggestions = << >>]
    /\ UNCHANGED server

\* ------------------------------------------------------------------- clock
Tick ==
    /\ now < MaxClock
    /\ now' = now + 1
    /\ Respond(NoCall)
    /\ UNCHANGED <<books, recs, jobs, runs, nextBookId, nextRecId, nextJobId,
                   nextRunId, manualRuns, saves>>

\* -------------------------------------------------------------------- types
\* schema.ts: the documents of the two tables (genre is always written by
\* addBook; run is the execution that inserted the recommendation)
BookDocs ==
    [id : BookIds, userId : Users, title : Titles, author : Authors,
     rating : Ratings,
     genre : {The(g) : g \in GenreArgs \ {Undefined}}
             \cup {SchedId(n) : n \in 1..MaxBooks}]

RecDocs ==
    [id : 1..(nextRecId - 1), userId : Users, bookTitle : SuggTitles,
     reason : Reasons, timestamp : 0..MaxClock, run : 0..(nextRunId - 1)]

TypeOK ==
    /\ books \subseteq BookDocs
    /\ recs \subseteq RecDocs
    /\ \A b \in books : \A c \in books : b.id = c.id => b = c
    /\ \A x \in recs : \A y \in recs : x.id = y.id => x = y
    /\ \A j \in jobs : j.state \in {"pending", "success", "failed"}
    /\ \A r \in runs : r.pc \in {"scheduled", "prompt", "save", "done", "failed"}
    /\ now \in 0..MaxClock
    /\ observed \in BOOLEAN

\* ---------------------------------------------------------- specifications
Empty ==
    /\ books = {}
    /\ recs = {}
    /\ jobs = {}
    /\ runs = {}
    /\ nextBookId = 1
    /\ nextRecId = 1
    /\ nextJobId = 1
    /\ nextRunId = 1
    /\ manualRuns = 0
    /\ saves = 0
    /\ now = 0
    /\ reply = NoCall
    /\ form = [title |-> << >>, suggestions |-> << >>, searchTimeout |-> 0,
               timers |-> {}, calls |-> {}, nextTimer |-> 1,
               submitting |-> FALSE]

\* The recommendation pipeline with every operation that reads or writes the
\* tables it uses.  detectGenre writes no table and searchBooks neither reads
\* nor writes one: they are left to SpecWrite and SpecSearch.
Init == Empty /\ observed = FALSE

Next ==
    \/ \E c \in Callers, t \in Titles, a \in Authors, r \in Ratings,
          g \in GenreArgs : addBook(c, t, a, r, g)
    \/ \E c \in Callers, b \in BookIds : removeBook(c, b)
    \/ \E c \in Callers, b \in BookIds, t \in Titles, a \in Authors,
          r \in Ratings : updateBook(c, b, t, a, r)
    \/ \E c \in Callers, u \in Users, t \in SuggTitles, r \in Reasons,
          ts \in 0..MaxClock :
          saveRecommendation(c, u, Some(t), Some(r), ts, MaxSaves)
    \/ \E c \in Callers, u \in Users : generateRecommendationsCall(c, u)
    \/ \E r \in runs : generateRecommendationsRead(r)
    \/ \E r \in runs, completion \in Completions(RecContents) :
          generateRecommendationsComplete(r, completion)
    \/ \E r \in runs : generateRecommendationsSave(r)
    \/ Tick

Spec == Init /\ [][Next]_vars

\* The write path: the calls on the books table and the genre detection they
\* schedule, with the outcome of every call recorded.  The steps of
\* generateRecommendations and saveRecommendation write neither books nor jobs.
InitObserved == Empty /\ observed = TRUE

NextWrite ==
    \/ \E c \in Callers, t \in Titles, a \in Authors, r \in Ratings,
          g \in GenreArgs : addBook(c, t, a, r, g)
    \/ \E j \in jobs, completion \in Completions(Opt(Texts)) :
          detectGenre(j, completion)
    \/ \E c \in Callers, b \in BookIds : removeBook(c, b)
    \/ \E c \in Callers, b \in BookIds, t \in Titles, a \in Authors,
          r \in Ratings : updateBook(c, b, t, a, r)

SpecWrite == InitObserved /\ [][NextWrite]_vars

\* The recommendations table alone: saveRecommendation is public, so client
\* calls reach every content the table can have.
NextTable ==
    \/ \E c \in Callers, u \in Users, t \in SuggTitles, r \in Reasons,
          ts \in 0..MaxClock :
          saveRecommendation(c, u, Some(t), Some(r), ts, MaxTableSaves)

SpecTable == Init /\ [][NextTable]_vars

\* Every call a client can make on the two tables, with the outcome of every
\* call recorded; the scheduled functions are left to Spec and SpecWrite.
NextCalls ==
    \/ \E c \in Callers, t \in Titles, a \in Authors, r \in Ratings,
          g \in GenreArgs : addBook(c, t, a, r, g)
    \/ \E c \in Callers, b \in BookIds : removeBook(c, b)
    \/ \E c \in Callers, b \in BookIds, t \in Titles, a \in Authors,
          r \in Ratings : updateBook(c, b, t, a, r)
    \/ \E c \in Callers, u \in Users, t \in Opt(SuggTitles), r \in Reasons,
          ts \in 0..MaxClock :
          saveRecommendation(c, u, t, Some(r), ts, MaxSaves)
    \/ \E c \in Callers, u \in Users : generateRecommendationsCall(c, u)
    \/ \E c \in Callers : listBooksCall(c)
    \/ \E c \in Callers : getRecommendationsCall(c)
    \/ \E c \in Callers, u \in Users : getUserBooksCall(c, u)

SpecCalls == InitObserved /\ [][NextCalls]_vars

\* The runs that addBook schedules, with completions that hold more
\* suggestions than the prompt asks for.
LongContents ==
    {[kind |-> "object", suggestions |-> Some(s)] :
        s \in SeqsUpTo(Suggestions, MaxLongSugg)}

NextLong ==
    \/ \E c \in Callers, t \in Titles, a \in Authors, r \in Ratings,
          g \in GenreArgs : addBook(c, t, a, r, g)
    \/ \E r \in runs : generateRecommendationsRead(r)
    \/ \E r \in runs, completion \in Completions(LongContents) :
          generateRecommendationsComplete(r, completion)
    \/ \E r \in runs : generateRecommendationsSave(r)

SpecLong == Init /\ [][NextLong]_vars

\* addBook and the runs it schedules under the scheduler's guarantee: a
\* function scheduled by a committed mutation is started (runAfter(0, ..): as
\* soon as possible), so the first step of a scheduled run is weakly fair.
\* The completion request and the inserts of a started run get no fairness.
RunIds == 1..(MaxBooks + MaxManualRuns)

NextFair ==
    \/ \E c \in Callers, t \in Titles, a \in Authors, r \in Ratings,
          g \in GenreArgs : addBook(c, t, a, r, g)
    \/ \E c \in Callers, b \in BookIds : removeBook(c, b)
    \/ \E r \in runs : generateRecommendationsRead(r)
    \/ \E r \in runs, completion \in Completions(RecContents) :
          generateRecommendationsComplete(r, completion)
    \/ \E r \in runs : generateRecommendationsSave(r)

SpecFair ==
    /\ InitObserved
    /\ [][NextFair]_vars
    /\ \A id \in RunIds :
          WF_vars(\E r \in runs : r.id = id /\ generateRecommendationsRead(r))

\* The add-book form: title edits, debounce timers, searchBooks responses,
\* submit and suggestion clicks.  The form reads no table and the backend
\* writes no form state; what addBook does to the tables is left to SpecWrite.
NextForm ==
    \/ \E t \in Queries : EditTitle(t)
    \/ \E tm \in form.timers : TimerFires(tm)
    \/ \E call \in form.calls, completion \in Completions(SearchContents) :
          SearchReturns(call, completion)
    \/ handleSubmitCall
    \/ \E ok \in BOOLEAN : handleSubmitReturn(ok)
    \/ \E i \in 1..MaxSugg : handleSuggestionClick(i)

SpecForm == Init /\ [][NextForm]_vars

\* searchBooks on its own
NextSearch ==
    \E c \in Callers, q \in Queries, completion \in Completions(SearchContents) :
       searchBooks(c, q, completion)

SpecSearch == InitObserved /\ [][NextSearch]_vars

\* ------------------------------------------------------------------ claims
Range(f) == {f[i] : i \in DOMAIN f}
Min(a, b) == IF a < b THEN a ELSE b

\* C1: an addBook call made with no authenticated identity fails with
\* Unauthenticated, inserts no book and schedules no background function
\* (neither detectGenre nor generateRecommendations).
C1_UnauthenticatedAddBook ==
    [][(reply'.op = "addBook" /\ reply'.caller = NoUser)
         => /\ reply'.err = "Unauthenticated"
            /\ books' = books
            /\ jobs' = jobs
            /\ runs' = runs]_vars

\* an unauthenticated addBook has been answered while a book is stored
C1_Witness ==
    /\ reply.op = "addBook"
    /\ reply.caller = NoUser
    /\ reply.err = "Unauthenticated"
    /\ books # {}

\* the target of the call answered by this step is, before the step, a book
\* of the caller
TargetOwnedByCaller ==
    \E b \in books : b.id = reply'.book /\ b.userId = reply'.caller

\* C2 as stated: every updateBook or removeBook call whose target does not
\* exist or belongs to a user other than the caller fails with
\* NotFoundOrForbidden and leaves the books table unchanged.
C2_AsStated ==
    [][(reply'.op \in {"removeBook", "updateBook"} /\ ~TargetOwnedByCaller)
         => /\ reply'.err = "NotFoundOrForbidden"
            /\ books' = books]_vars

\* C2 as amended: such a call leaves the books table unchanged; it fails with
\* NotFoundOrForbidden when the caller is authenticated and with
\* Unauthenticated when the call carries no identity.
C2_NotOwnedRejected ==
    [][(reply'.op \in {"removeBook", "updateBook"} /\ ~TargetOwnedByCaller)
         => /\ books' = books
            /\ reply'.caller # NoUser => reply'.err = "NotFoundOrForbidden"
            /\ reply'.caller = NoUser => reply'.err = "Unauthenticated"]_vars

\* a user's call on a stored book of another user has been rejected
C2_Witness ==
    /\ reply.op \in {"removeBook", "updateBook"}
    /\ reply.err = "NotFoundOrForbidden"
    /\ \E b \in books : b.id = reply.book /\ b.userId # reply.caller

\* C3: the genre stored on a book added without a genre is the label that
\* detectGenre returned for it.
C3_StoredGenreIsDetected ==
    \A j \in jobs : j.state = "success" =>
        \A b \in books : b.id = j.book => b.genre = j.result

\* C4: when the completion request of the genre detection of an addBook
\* fails, no book of that addBook exists.
C4_FailedDetectionNoBook ==
    \A j \in jobs : j.state = "failed" =>
        ~ \E b \in books : b.id = j.book

\* the content is null, empty or only whitespace
IsBlank(content) ==
    \/ content = Undefined
    \/ \A i \in 1..Len(The(content)) : The(content)[i] \in Whitespace

\* C5: a book added without a genre (one whose addBook scheduled detectGenre)
\* has a non-empty stored genre, and detectGenre returns "Fiction" when the
\* response is null, empty or only whitespace.
C5_GenreNeverEmpty ==
    /\ \A j \in jobs : \A b \in books : b.id = j.book => Len(b.genre) > 0
    /\ \A j \in jobs : (j.state = "success" /\ IsBlank(j.content))
                          => j.result = Fiction

\* a book added without a genre is stored and its detection got only whitespace
C5_Witness ==
    \E j \in jobs :
        /\ j.state = "success"
        /\ j.content = Some(<<" ">>)
        /\ \E b \in books : b.id = j.book

\* C6 as stated: the library read by a run that addBook scheduled contains
\* the book that addBook inserted.
C6_AsStated ==
    \A r \in runs : (r.book # 0 /\ r.pc # "scheduled") => r.book \in r.lib

\* C6 as amended: the library read by a run that addBook scheduled contains
\* the book that addBook inserted unless the book has been removed: a run
\* that did not read the book implies the book is no longer stored.
C6_SeesBookUnlessRemoved ==
    \A r \in runs : (r.book # 0 /\ r.pc # "scheduled" /\ r.book \notin r.lib)
                       => ~ \E b \in books : b.id = r.book

\* a scheduled run has read a library holding its book after the owner
\* changed the book and a second run for the same user was requested
C6_Witness ==
    \E r \in runs :
        /\ r.book # 0
        /\ r.pc = "prompt"
        /\ r.book \in r.lib
        /\ \E q \in runs : q.book = 0 /\ q.userId = r.userId /\ q.id < r.id

\* C7: getRecommendations returns at most 3 records of the caller, no record
\* twice, in non-increasing timestamp order; none of the caller's records
\* left out is newer than a returned one, and none is left out while fewer
\* than 3 are returned.
C7_ThreeMostRecent ==
    \A c \in Callers :
        LET out == getRecommendations(c)
            mine == {x \in recs : x.userId = c}
        IN  /\ Len(out) = Min(3, Cardinality(mine))
            /\ Cardinality(Range(out)) = Len(out)
            /\ Range(out) \subseteq mine
            /\ \A i \in 1..Len(out) : \A k \in 1..Len(out) :
                  i < k => out[i].timestamp >= out[k].timestamp
            /\ \A x \in mine \ Range(out) : \A i \in 1..Len(out) :
                  x.timestamp <= out[i].timestamp

\* a user has four records with different timestamps, another user has one
C7_Witness ==
    /\ Cardinality({x \in recs : x.userId = "u1"}) >= 4
    /\ \E x \in recs : \E y \in recs :
          x.userId = "u1" /\ y.userId = "u1" /\ x.timestamp # y.timestamp
    /\ \E x \in recs : x.userId = "u2"

\* C8: a run that read an empty library has ended without error, requested
\* no completion and inserted no recommendation.
C8_EmptyLibraryNoOp ==
    \A r \in runs : (r.pc # "scheduled" /\ r.lib = {}) =>
        /\ r.pc = "done"
        /\ r.err = "none"
        /\ r.answer = "none"
        /\ ~ \E x \in recs : x.run = r.id

\* the run scheduled by an addBook found the library empty
C8_Witness ==
    \E r \in runs : r.book # 0 /\ r.pc = "done" /\ r.lib = {}

\* C9: a run whose completion is not valid JSON has failed and no
\* recommendation of that run exists; the step in which it fails changes
\* neither the books table nor the recommendations table.
C9_InvalidJsonFailsRun ==
    [][\A r \in runs' : r.answer = "invalid" =>
          /\ r.pc = "failed"
          /\ ~ \E x \in recs' : x.run = r.id
          /\ r \notin runs => (books' = books /\ recs' = recs)]_vars

\* the run scheduled by an addBook failed on invalid JSON and its book is stored
C9_Witness ==
    \E r \in runs :
        /\ r.answer = "invalid"
        /\ r.pc = "failed"
        /\ \E b \in books : b.id = r.book

\* C10: a searchBooks call with a query shorter than 2 characters returns the
\* empty list without error and without a completion request.
C10_ShortQueryNoCall ==
    (reply.op = "searchBooks" /\ Len(reply.query) < 2) =>
        /\ reply.result = << >>
        /\ reply.err = "none"
        /\ ~ reply.called

\* a one-character query has been answered
C10_Witness ==
    /\ reply.op = "searchBooks"
    /\ Len(reply.query) = 1
    /\ reply.result = << >>

\* the records of a table that a step creates, changes or deletes
Touched(before, after) == (before \ after) \cup (after \ before)

\* C11: every step that answers a call of an authenticated user returns,
\* creates, changes and deletes only books and recommendations owned by that
\* user, whatever userId argument the call carries.
C11_OnlyOwnRecords ==
    [][reply'.caller \in Users =>
          /\ \A x \in Touched(books, books') : x.userId = reply'.caller
          /\ \A x \in Touched(recs, recs') : x.userId = reply'.caller
          /\ reply'.owners \subseteq {reply'.caller}]_vars

\* the mutations and the user-scoped queries
Protected ==
    {"addBook", "updateBook", "removeBook", "saveRecommendation",
     "listBooks", "getRecommendations", "getUserBooks"}

\* C12: every call of a mutation or of a user-scoped query that carries no
\* identity fails with Unauthenticated, returns no record and leaves both
\* tables as they were.
C12_IdentityCheckedFirst ==
    [][(reply'.op \in Protected /\ reply'.caller = NoUser)
         => /\ reply'.err = "Unauthenticated"
            /\ reply'.owners = {}
            /\ books' = books
            /\ recs' = recs]_vars

\* C13: every stored recommendation was inserted by a run of
\* generateRecommendations, none by another operation a client can call.
C13_OnlyRunsInsert ==
    \A x \in recs : x.run # 0

\* C14: no step removes or changes a stored recommendation: every record of
\* the table before a step is in the table after it, with the same owner,
\* title, reason and timestamp.
C14_AppendOnly ==
    [][\A x \in recs : x \in recs']_vars

\* a record inserted by a run and a record inserted by a client call are
\* both stored after the only book was removed
C14_Witness ==
    /\ \E x \in recs : x.run # 0
    /\ \E x \in recs : x.run = 0
    /\ books = {}

\* C15: every stored book has a rating that is an integer from 1 to 5.
C15_RatingInRange ==
    \A b \in books : b.rating \in 1..5

C17_OneRunPerAddBook ==
    /\ [][reply'.op = "addBook" =>
            IF reply'.err = "none"
            THEN \E r \in runs' \ runs :
                    /\ runs' = runs \cup {r}
                    /\ r.userId = reply'.caller
                    /\ r.pc = "scheduled"
                    /\ r.book = reply'.book
                    /\ \E b \in books' \ books :
                          b.id = r.book /\ b.userId = r.userId
            ELSE runs' = runs]_vars
    /\ \A id \in RunIds :
          (\E r \in runs : r.id = id /\ r.pc = "scheduled")
             ~> (\E r \in runs : r.id = id /\ r.pc # "scheduled")

\* the run that the second user's addBook scheduled has started and found
\* the book
C17_Witness ==
    \E r \in runs :
        /\ r.userId = "u2"
        /\ r.book # 0
        /\ r.pc # "scheduled"
        /\ r.book \in r.lib

\* the records that a run inserted
InsertedBy(r) == {x \in recs : x.run = r.id}

\* C18 as stated: the records inserted by one run carry the same timestamp
\* and are owned by the run's userId, and a run that has ended has inserted
\* exactly one record per suggestion of the parsed output.
C18_AsStated ==
    \A r \in runs :
        /\ \A x \in InsertedBy(r) : \A y \in InsertedBy(r) :
              x.timestamp = y.timestamp
        /\ \A x \in InsertedBy(r) : x.userId = r.userId
        /\ r.pc \in {"done", "failed"} => Cardinality(InsertedBy(r)) = r.n

\* C18 as amended: the records inserted by one run carry the same timestamp,
\* the one the run took before its loop, and are owned by the run's userId;
\* while the loop runs there is one record per suggestion visited, and a run
\* that has ended without error has inserted exactly one record per
\* suggestion of the parsed output.
C18_OneStampOnePerSuggestion ==
    \A r \in runs :
        /\ \A x \in InsertedBy(r) : \A y \in InsertedBy(r) :
              x.timestamp = y.timestamp
        /\ \A x \in InsertedBy(r) : x.userId = r.userId
        /\ r.pc = "save" =>
              /\ \A x \in InsertedBy(r) : x.timestamp = r.timestamp
              /\ Cardinality(InsertedBy(r)) + Len(r.todo) = r.n
        /\ r.pc = "done" => Cardinality(InsertedBy(r)) = r.n

\* a run has ended after inserting two records, at a time later than their
\* timestamp
C18_Witness ==
    \E r \in runs :
        /\ r.pc = "done"
        /\ r.n = 2
        /\ Cardinality(InsertedBy(r)) = 2
        /\ \A x \in InsertedBy(r) : x.timestamp < now

\* C19 as stated: no run has inserted more than 3 records.
C19_AsStated ==
    \A r \in runs : Cardinality(InsertedBy(r)) \in 0..3

\* C19 as amended: no run has inserted more records than the completion
\* held suggestions.
C19_AtMostOnePerSuggestion ==
    \A r \in runs : Cardinality(InsertedBy(r)) \in 0..r.n

\* a run has inserted four records
C19_Witness ==
    \E r \in runs : r.pc = "done" /\ Cardinality(InsertedBy(r)) = 4

\* C20 as stated: no record exists of a run that failed.
C20_AsStated ==
    \A r \in runs : r.pc = "failed" => InsertedBy(r) = {}

\* C20 as amended: a run whose completion request failed, or gave invalid
\* JSON or null, has failed, and no record exists of a run that failed
\* before its loop; a run that failed on a rejected insert has inserted a
\* record for fewer suggestions than the output held.
C20_NothingBeforeLoop ==
    \A r \in runs :
        /\ r.answer \in {"throws", "invalid", "null"} => r.pc = "failed"
        /\ r.pc = "failed" =>
              IF r.err = "ArgumentValidationError"
              THEN Cardinality(InsertedBy(r)) < r.n
              ELSE InsertedBy(r) = {}

\* a run failed on its second suggestion after inserting the first, and a
\* run failed on an output without a suggestions list
C20_Witness ==
    /\ \E r \in runs : /\ r.err = "ArgumentValidationError"
                        /\ Cardinality(InsertedBy(r)) = 1
    /\ \E r \in runs : r.err = "TypeError" /\ r.answer = "object"

\* no timer is pending, no searchBooks call is awaited and no submit is open
Settled == form.timers = {} /\ form.calls = {} /\ ~form.submitting

\* C21: in every settled state of the add-book form a title shorter than 2
\* characters shows no suggestions; and every searchBooks call the form
\* issues, and every response it applies, is for the title the form holds at
\* that step.
C21_NoStaleSuggestions ==
    /\ [](Settled /\ Len(form.title) < 2 => form.suggestions = << >>)
    /\ [][/\ \A c \in form'.calls \ form.calls : c.query = form.title
          /\ \A c \in form.calls \ form'.calls : c.query = form.title]_vars

====
